---- MODULE Spec2Model ----
(***************************************************************************)
(* The code samples of the MyArticles repository as state machines.       *)
(*                                                                         *)
(*  - the functional-options constructor of the "Functional Options       *)
(*    Pattern" article: main builds a list of options with WithPort and   *)
(*    WithTimeout, NewLocalHost creates a Server with the defaults and     *)
(*    invokes the options in order, stopping at the first error.  The      *)
(*    article prints WithPort twice: refined with a range check, and,     *)
(*    in its closing complete listing, without one.  The variable          *)
(*    `listing` says which of the two is compiled in.                      *)
(*  - the error-handling article's getCharIndex, recover-based and       *)
(*    bounds-checked, and the getCharacter of article-1/main.go.          *)
(*  - the two-parameter NewLocalHost(port, timeout interface{}) of       *)
(*    article-7/main.go.                                                   *)
(***************************************************************************)
EXTENDS Integers, Sequences, FiniteSets, TLC

\* ------------------------------------------------------------------ bounds

\* The longest option list main passes to NewLocalHost.
MaxOpts == 3
\* The number of NewLocalHost calls the model has room for.
NumCalls == 2
\* The most options the concurrent calls are passed, all together.
MaxConcOpts == 3
\* The longest string handed to getCharIndex.
MaxStrLen == 3
\* Indices handed to getCharIndex range over -IdxSlack .. MaxStrLen + IdxSlack.
IdxSlack == 2

\* --------------------------------------------------------- program constants

\* time.Second, in the model's unit of time (milliseconds).
Second == 1000
\* The range check of the refined WithPort: port >= 5000 && port < 10000.
MinPort == 5000
MaxPort == 10000
\* The defaults NewLocalHost starts from.
DefaultHost == "127.0.0.1"
DefaultPort == 8080
DefaultTimeout == 3 * Second

\* The nil pointer and the nil error.
Nil == 0
NoErr == <<>>

Calls == 1 .. NumCalls

\* The two printings of the options code: WithPort with the range check
\* ("refined") and the closing complete listing, whose WithPort has none.
Listings == {"refined", "full"}

\* The ports and timeouts main passes to the helper functions.
PortPool == {-1, MinPort - 1, MinPort, 6000, 7000, MaxPort - 1, MaxPort, 99999}
TimeoutPool == {0, DefaultTimeout, 5 * Second}

\* --------------------------------------------------------------- formatting

DigitChars == <<"0", "1", "2", "3", "4", "5", "6", "7", "8", "9">>

RECURSIVE FormatNat(_)
\* The decimal digits of a natural number, most significant first.
FormatNat(n) ==
    IF n < 10 THEN <<DigitChars[n + 1]>>
    ELSE FormatNat(n \div 10) \o <<DigitChars[(n % 10) + 1]>>

\* fmt's %d verb: the decimal digits, after a minus sign when negative.
FormatInt(n) == IF n < 0 THEN <<"-">> \o FormatNat(-n) ELSE FormatNat(n)

\* The error of the refined WithPort, as the pieces of its text.
PortError(port) ==
    <<"port ">> \o FormatInt(port) \o <<" is out of the valid range (5000-9999)">>

\* ------------------------------------------------------------------ options

\* NewServer with the port mistyped: 80 for 8080.
NewServerPort80 == [host |-> DefaultHost, port |-> 80, timeout |-> DefaultTimeout]

\* The record NewLocalHost creates before it applies any option.
NewServer == [host |-> DefaultHost, port |-> DefaultPort, timeout |-> DefaultTimeout]

\* A helper function returns a closure: its name and the captured argument.
WithPort(port) == [fn |-> "WithPort", arg |-> port]
WithTimeout(t) == [fn |-> "WithTimeout", arg |-> t]

\* WithPortFunc with the lower bound exclusive: port > 5000.
WithPortFuncOffByOne(port, s) ==
    IF port > MinPort /\ port < MaxPort
    THEN [s |-> [s EXCEPT !.port = port], err |-> NoErr]
    ELSE [s |-> s, err |-> PortError(port)]

\* WithPortFunc assigning the port before it checks the range.
WithPortFuncAssignFirst(port, s) ==
    IF port >= MinPort /\ port < MaxPort
    THEN [s |-> [s EXCEPT !.port = port], err |-> NoErr]
    ELSE [s |-> [s EXCEPT !.port = port], err |-> PortError(port)]

\* WithPortFunc with the upper bound inclusive: port <= 10000.
WithPortFuncUpperInclusive(port, s) ==
    IF port >= MinPort /\ port <= MaxPort
    THEN [s |-> [s EXCEPT !.port = port], err |-> NoErr]
    ELSE [s |-> s, err |-> PortError(port)]

\* WithPortFunc with || for &&: the test holds for every port.
WithPortFuncOrCheck(port, s) ==
    IF port >= MinPort \/ port < MaxPort
    THEN [s |-> [s EXCEPT !.port = port], err |-> NoErr]
    ELSE [s |-> s, err |-> PortError(port)]

\* The closure of the refined WithPort, run on Server s: the Server
\* afterwards and the error returned.
WithPortFunc(port, s) ==
    IF port >= MinPort /\ port < MaxPort
    THEN [s |-> [s EXCEPT !.port = port], err |-> NoErr]
    ELSE [s |-> s, err |-> PortError(port)]

\* WithPortFullFunc overwriting the whole Server: *c = Server{port: p},
\* which zeroes the host and the timeout.
WithPortFullFuncOverwrite(p, c) ==
    [s |-> [host |-> "", port |-> p, timeout |-> 0], err |-> NoErr]

\* The closure of the complete listing's WithPort: no check.
WithPortFullFunc(p, c) == [s |-> [c EXCEPT !.port = p], err |-> NoErr]

\* WithTimeoutFunc assigning to a copy of the Server: the change is lost.
WithTimeoutFuncOnCopy(t, c) == [s |-> c, err |-> NoErr]

\* WithTimeoutFunc overwriting the whole Server: *c = Server{host: c.host,
\* timeout: t}, which zeroes the port.
WithTimeoutFuncOverwrite(t, c) ==
    [s |-> [host |-> c.host, port |-> 0, timeout |-> t], err |-> NoErr]

\* The closure of WithTimeout.
WithTimeoutFunc(t, c) == [s |-> [c EXCEPT !.timeout = t], err |-> NoErr]

\* opt(server): what invoking closure opt does under listing l.
CallOpt(l, opt, s) ==
    IF opt.fn = "WithTimeout" THEN WithTimeoutFunc(opt.arg, s)
    ELSE IF l = "refined" THEN WithPortFunc(opt.arg, s)
    ELSE WithPortFullFunc(opt.arg, s)

\* The range loop of NewLocalHost run to its end on Server s: the Server
\* afterwards and the first error an option returned.
RECURSIVE RangeOpts(_, _, _)
RangeOpts(l, o, s) ==
    IF o = <<>> THEN [s |-> s, err |-> NoErr]
    ELSE LET r == CallOpt(l, Head(o), s) IN
         IF r.err # NoErr THEN r ELSE RangeOpts(l, Tail(o), r.s)

\* NewLocalHost(opts...) as a function of its options: the Server behind
\* the returned pointer (<<>> for nil) and the returned error.
NewLocalHost(l, o) ==
    LET r == RangeOpts(l, o, NewServer) IN
    IF r.err # NoErr THEN [target |-> <<>>, err |-> r.err]
    ELSE [target |-> <<r.s>>, err |-> NoErr]

\* -------------------------------------------------------------------- state

VARIABLES
    listing,   \* which printing of WithPort is compiled in
    heap,      \* the Servers allocated so far; a pointer is an index
    pc,        \* per call: "idle", "main", "loop", "done"
    opts,      \* per call: the options main has built for it
    server,    \* per call: NewLocalHost's local variable server
    next,      \* per call: the position of the range loop
    invoked,   \* per call: the positions of the options invoked, in order
    ret,       \* per call: the pair NewLocalHost returned
    str,       \* getCharIndex: its string argument, a sequence of bytes
    idx,       \* getCharIndex: its index argument
    cpc,       \* getCharIndex: "idle", "call", "done", "panic"
    cres,      \* getCharIndex: the named results char and err
    rpc,       \* recover-based getCharIndex: "idle", "call", "panicking",
               \* "returning", "done"
    rres,      \* recover-based getCharIndex: the named results char and err
    gpc,       \* getCharacter: as rpc
    gres,      \* getCharacter: the named results char and err
    aport,     \* two-parameter NewLocalHost: its argument port
    atimeout,  \* two-parameter NewLocalHost: its argument timeout
    apc,       \* two-parameter NewLocalHost: "idle", "call", "done"
    aret       \* two-parameter NewLocalHost: <<the Server returned>>

bvars == <<listing, heap, pc, opts, server, next, invoked, ret>>
cvars == <<str, idx, cpc, cres, rpc, rres, gpc, gres>>
avars == <<aport, atimeout, apc, aret>>
vars == <<listing, heap, pc, opts, server, next, invoked, ret,
          str, idx, cpc, cres, rpc, rres, gpc, gres,
          aport, atimeout, apc, aret>>

NoRet == [target |-> Nil, err |-> NoErr]

\* The named results of a function just entered: the zero rune, nil.
ZeroResults == [char |-> 0, err |-> NoErr]

\* Neither getCharIndex nor getCharacter is running.
CharIdle ==
    /\ str = <<>>
    /\ idx = 0
    /\ cpc = "idle"
    /\ cres = [char |-> 0, err |-> NoErr]
    /\ rpc = "idle"
    /\ rres = ZeroResults
    /\ gpc = "idle"
    /\ gres = ZeroResults

\* An interface{} value: its dynamic type and the value held.  A string
\* is held as the number its text spells.
NilValue == [type |-> "nil", val |-> 0]
IntValue(n) == [type |-> "int", val |-> n]
DurationValue(d) == [type |-> "time.Duration", val |-> d]
StringValue(n) == [type |-> "string", val |-> n]

\* The two-parameter NewLocalHost is not running.
ArgsIdle ==
    /\ aport = NilValue
    /\ atimeout = NilValue
    /\ apc = "idle"
    /\ aret = <<>>

\* main is about to build the options of its first NewLocalHost call; it
\* makes no other call.
Init ==
    /\ listing \in Listings
    /\ heap = <<>>
    /\ pc = [c \in Calls |-> IF c = 1 THEN "main" ELSE "idle"]
    /\ opts = [c \in Calls |-> <<>>]
    /\ server = [c \in Calls |-> Nil]
    /\ next = [c \in Calls |-> 0]
    /\ invoked = [c \in Calls |-> <<>>]
    /\ ret = [c \in Calls |-> NoRet]
    /\ CharIdle
    /\ ArgsIdle

\* ------------------------------------------------------------------ actions

\* MainWithPort whose helper also writes the port into the Server made
\* last, instead of leaving every change to the returned function.
MainWithPortEager(c, p) ==
    /\ pc[c] = "main"
    /\ Len(opts[c]) < MaxOpts
    /\ opts' = [opts EXCEPT ![c] = Append(@, WithPort(p))]
    /\ heap' = IF heap = <<>> THEN heap ELSE [heap EXCEPT ![Len(heap)].port = p]
    /\ UNCHANGED <<listing, pc, server, next, invoked, ret>>
    /\ UNCHANGED <<cvars, avars>>

\* main evaluates WithPort(p) as the next argument of call c.
MainWithPort(c, p) ==
    /\ pc[c] = "main"
    /\ Len(opts[c]) < MaxOpts
    /\ opts' = [opts EXCEPT ![c] = Append(@, WithPort(p))]
    /\ UNCHANGED <<listing, heap, pc, server, next, invoked, ret>>
    /\ UNCHANGED <<cvars, avars>>

\* main evaluates WithTimeout(t) as the next argument of call c.
MainWithTimeout(c, t) ==
    /\ pc[c] = "main"
    /\ Len(opts[c]) < MaxOpts
    /\ opts' = [opts EXCEPT ![c] = Append(@, WithTimeout(t))]
    /\ UNCHANGED <<listing, heap, pc, server, next, invoked, ret>>
    /\ UNCHANGED <<cvars, avars>>

\* NewLocalHostEnter handing out one package-level default Server: every
\* call after the first gets the pointer the first one made.
NewLocalHostEnterShared(c) ==
    /\ pc[c] = "main"
    /\ heap' = IF heap = <<>> THEN Append(heap, NewServer) ELSE heap
    /\ server' = [server EXCEPT ![c] = 1]
    /\ next' = [next EXCEPT ![c] = 1]
    /\ pc' = [pc EXCEPT ![c] = "loop"]
    /\ UNCHANGED <<listing, opts, invoked, ret>>
    /\ UNCHANGED <<cvars, avars>>

\* NewLocalHost is entered: server := &Server{defaults}, the loop starts.
NewLocalHostEnter(c) ==
    /\ pc[c] = "main"
    /\ heap' = Append(heap, NewServer)
    /\ server' = [server EXCEPT ![c] = Len(heap) + 1]
    /\ next' = [next EXCEPT ![c] = 1]
    /\ pc' = [pc EXCEPT ![c] = "loop"]
    /\ UNCHANGED <<listing, opts, invoked, ret>>
    /\ UNCHANGED <<cvars, avars>>

\* LoopIter that logs the error and goes on to the next option.
LoopIterContinue(c) ==
    /\ pc[c] = "loop"
    /\ next[c] <= Len(opts[c])
    /\ LET r == CallOpt(listing, opts[c][next[c]], heap[server[c]]) IN
         /\ heap' = [heap EXCEPT ![server[c]] = r.s]
         /\ invoked' = [invoked EXCEPT ![c] = Append(@, next[c])]
         /\ next' = [next EXCEPT ![c] = @ + 1]
         /\ UNCHANGED <<ret, pc>>
    /\ UNCHANGED <<listing, opts, server>>
    /\ UNCHANGED <<cvars, avars>>

\* LoopIter that returns server, err on an error.
LoopIterReturnsBoth(c) ==
    /\ pc[c] = "loop"
    /\ next[c] <= Len(opts[c])
    /\ LET r == CallOpt(listing, opts[c][next[c]], heap[server[c]]) IN
         /\ heap' = [heap EXCEPT ![server[c]] = r.s]
         /\ invoked' = [invoked EXCEPT ![c] = Append(@, next[c])]
         /\ IF r.err # NoErr
            THEN /\ ret' = [ret EXCEPT ![c] = [target |-> server[c], err |-> r.err]]
                 /\ pc' = [pc EXCEPT ![c] = "done"]
                 /\ UNCHANGED next
            ELSE /\ next' = [next EXCEPT ![c] = @ + 1]
                 /\ UNCHANGED <<ret, pc>>
    /\ UNCHANGED <<listing, opts, server>>
    /\ UNCHANGED <<cvars, avars>>

\* LoopIter walking the options from the last to the first.
LoopIterReversed(c) ==
    /\ pc[c] = "loop"
    /\ next[c] <= Len(opts[c])
    /\ LET at == Len(opts[c]) + 1 - next[c]
           r == CallOpt(listing, opts[c][at], heap[server[c]]) IN
         /\ heap' = [heap EXCEPT ![server[c]] = r.s]
         /\ invoked' = [invoked EXCEPT ![c] = Append(@, at)]
         /\ IF r.err # NoErr
            THEN /\ ret' = [ret EXCEPT ![c] = [target |-> Nil, err |-> r.err]]
                 /\ pc' = [pc EXCEPT ![c] = "done"]
                 /\ UNCHANGED next
            ELSE /\ next' = [next EXCEPT ![c] = @ + 1]
                 /\ UNCHANGED <<ret, pc>>
    /\ UNCHANGED <<listing, opts, server>>
    /\ UNCHANGED <<cvars, avars>>

\* LoopIter that puts the defaults back into the Server before it returns
\* an error.
LoopIterRollback(c) ==
    /\ pc[c] = "loop"
    /\ next[c] <= Len(opts[c])
    /\ LET r == CallOpt(listing, opts[c][next[c]], heap[server[c]]) IN
         /\ invoked' = [invoked EXCEPT ![c] = Append(@, next[c])]
         /\ IF r.err # NoErr
            THEN /\ heap' = [heap EXCEPT ![server[c]] = NewServer]
                 /\ ret' = [ret EXCEPT ![c] = [target |-> Nil, err |-> r.err]]
                 /\ pc' = [pc EXCEPT ![c] = "done"]
                 /\ UNCHANGED next
            ELSE /\ heap' = [heap EXCEPT ![server[c]] = r.s]
                 /\ next' = [next EXCEPT ![c] = @ + 1]
                 /\ UNCHANGED <<ret, pc>>
    /\ UNCHANGED <<listing, opts, server>>
    /\ UNCHANGED <<cvars, avars>>

\* LoopIter that tries a failing option again instead of returning.
LoopIterRetry(c) ==
    /\ pc[c] = "loop"
    /\ next[c] <= Len(opts[c])
    /\ LET r == CallOpt(listing, opts[c][next[c]], heap[server[c]]) IN
         /\ heap' = [heap EXCEPT ![server[c]] = r.s]
         /\ invoked' = [invoked EXCEPT ![c] = Append(@, next[c])]
         /\ IF r.err # NoErr
            THEN UNCHANGED <<next, ret, pc>>
            ELSE /\ next' = [next EXCEPT ![c] = @ + 1]
                 /\ UNCHANGED <<ret, pc>>
    /\ UNCHANGED <<listing, opts, server>>
    /\ UNCHANGED <<cvars, avars>>

\* One iteration of the range loop: err := opt(server); a non-nil err
\* returns (nil, err) at once.
LoopIter(c) ==
    /\ pc[c] = "loop"
    /\ next[c] <= Len(opts[c])
    /\ LET r == CallOpt(listing, opts[c][next[c]], heap[server[c]]) IN
         /\ heap' = [heap EXCEPT ![server[c]] = r.s]
         /\ invoked' = [invoked EXCEPT ![c] = Append(@, next[c])]
         /\ IF r.err # NoErr
            THEN /\ ret' = [ret EXCEPT ![c] = [target |-> Nil, err |-> r.err]]
                 /\ pc' = [pc EXCEPT ![c] = "done"]
                 /\ UNCHANGED next
            ELSE /\ next' = [next EXCEPT ![c] = @ + 1]
                 /\ UNCHANGED <<ret, pc>>
    /\ UNCHANGED <<listing, opts, server>>
    /\ UNCHANGED <<cvars, avars>>

\* The range loop is over: return server, nil.
LoopExit(c) ==
    /\ pc[c] = "loop"
    /\ next[c] > Len(opts[c])
    /\ ret' = [ret EXCEPT ![c] = [target |-> server[c], err |-> NoErr]]
    /\ pc' = [pc EXCEPT ![c] = "done"]
    /\ UNCHANGED <<listing, heap, opts, server, next, invoked>>
    /\ UNCHANGED <<cvars, avars>>

Next ==
    \/ \E c \in Calls, p \in PortPool : MainWithPort(c, p)
    \/ \E c \in Calls, t \in TimeoutPool : MainWithTimeout(c, t)
    \/ \E c \in Calls : NewLocalHostEnter(c)
    \/ \E c \in Calls : LoopIter(c)
    \/ \E c \in Calls : LoopExit(c)

Spec == Init /\ [][Next]_vars

\* NewLocalHost neither blocks nor yields: a call that has been entered
\* goes on with its loop until it returns.
SpecFair ==
    /\ Init
    /\ [][Next]_vars
    /\ \A c \in Calls : WF_vars(LoopIter(c)) /\ WF_vars(LoopExit(c))

\* ---------------------------------------------------------- concurrent calls

\* The ports and timeouts the concurrent callers pass.
ConcPortPool == {MinPort - 1, 7000}
ConcTimeoutPool == {5 * Second}

\* The options built so far by all the calls together.
RECURSIVE SumLen(_, _)
SumLen(f, S) ==
    IF S = {} THEN 0
    ELSE LET c == CHOOSE x \in S : TRUE IN Len(f[c]) + SumLen(f, S \ {c})
TotalOpts == SumLen(opts, Calls)

\* Every call is made from a goroutine of its own; each is about to build
\* its options.
InitConc ==
    /\ listing \in Listings
    /\ heap = <<>>
    /\ pc = [c \in Calls |-> "main"]
    /\ opts = [c \in Calls |-> <<>>]
    /\ server = [c \in Calls |-> Nil]
    /\ next = [c \in Calls |-> 0]
    /\ invoked = [c \in Calls |-> <<>>]
    /\ ret = [c \in Calls |-> NoRet]
    /\ CharIdle
    /\ ArgsIdle

\* Goroutine c evaluates WithPort(p) as its next argument.
GoWithPort(c, p) == TotalOpts < MaxConcOpts /\ MainWithPort(c, p)

\* Goroutine c evaluates WithTimeout(t) as its next argument.
GoWithTimeout(c, t) == TotalOpts < MaxConcOpts /\ MainWithTimeout(c, t)

\* The steps of the calls interleave in any order.
NextConc ==
    \/ \E c \in Calls, p \in ConcPortPool : GoWithPort(c, p)
    \/ \E c \in Calls, t \in ConcTimeoutPool : GoWithTimeout(c, t)
    \/ \E c \in Calls : NewLocalHostEnter(c)
    \/ \E c \in Calls : LoopIter(c)
    \/ \E c \in Calls : LoopExit(c)

SpecConc == InitConc /\ [][NextConc]_vars

\* ------------------------------------------------------------- getCharIndex

\* The bytes the strings handed to getCharIndex are made of, and their text.
Bytes == {72, 105}
ByteText(b) == IF b = 72 THEN "H" ELSE "i"

\* The strings of at most MaxStrLen bytes.
Strings == UNION {[1 .. n -> Bytes] : n \in 0 .. MaxStrLen}

\* The indices handed to getCharIndex.
Indices == (0 - IdxSlack) .. (MaxStrLen + IdxSlack)

\* fmt's %s verb on a string: its bytes as text.
FormatString(st) == [k \in 1 .. Len(st) |-> ByteText(st[k])]

\* The error of getCharIndex, as the pieces of its text.
IndexError(i, st) ==
    <<"Index ">> \o FormatInt(i) \o <<" was not exist in  the string '">>
        \o FormatString(st) \o <<"'">>

\* Go's run-time check of the index expression st[i]: it panics unless
\* 0 <= i < len(st).
IndexPanics(st, i) == i < 0 \/ i >= Len(st)

\* The condition getCharIndex tests before it indexes: len(str) > idx.
BoundsCheck(st, i) == Len(st) > i

\* The error of getCharacter, as the pieces of its text.
CharacterError(i) ==
    <<"attempted to access index ">> \o FormatInt(i) \o <<" out of range">>

\* main is about to call, on the same str and idx, the bounds-checked
\* getCharIndex, the recover-based getCharIndex and getCharacter; the
\* named results char and err hold their zero values.
InitChar ==
    /\ listing = "refined"
    /\ heap = <<>>
    /\ pc = [c \in Calls |-> "idle"]
    /\ opts = [c \in Calls |-> <<>>]
    /\ server = [c \in Calls |-> Nil]
    /\ next = [c \in Calls |-> 0]
    /\ invoked = [c \in Calls |-> <<>>]
    /\ ret = [c \in Calls |-> NoRet]
    /\ str \in Strings
    /\ idx \in Indices
    /\ cpc = "call"
    /\ cres = [char |-> 0, err |-> NoErr]
    /\ rpc = "call"
    /\ rres = ZeroResults
    /\ gpc = "call"
    /\ gres = ZeroResults
    /\ ArgsIdle

\* The bounds-checked getCharIndex: index when len(str) > idx, else set
\* err; return char, err.  An index expression out of range panics, and
\* nothing recovers the panic.
GetCharIndex ==
    /\ cpc = "call"
    /\ IF BoundsCheck(str, idx)
       THEN IF IndexPanics(str, idx)
            THEN /\ cpc' = "panic"
                 /\ UNCHANGED cres
            ELSE /\ cres' = [cres EXCEPT !.char = str[idx + 1]]
                 /\ cpc' = "done"
       ELSE /\ cres' = [cres EXCEPT !.err = IndexError(idx, str)]
            /\ cpc' = "done"
    /\ UNCHANGED <<str, idx, rpc, rres, gpc, gres>>
    /\ UNCHANGED <<bvars, avars>>

\* The body of the recover-based getCharIndex: char = rune(str[idx]);
\* return char, nil.  An index out of range panics before char is
\* assigned, and the deferred function runs with the panic in flight.
GetCharIndexRecoverBody ==
    /\ rpc = "call"
    /\ IF IndexPanics(str, idx)
       THEN /\ rpc' = "panicking"
            /\ UNCHANGED rres
       ELSE /\ rres' = [char |-> str[idx + 1], err |-> NoErr]
            /\ rpc' = "returning"
    /\ UNCHANGED <<str, idx, cpc, cres, gpc, gres>>
    /\ UNCHANGED <<bvars, avars>>

\* The deferred function of the recover-based getCharIndex: recover()
\* is non-nil only while panicking; it stops the panic and err is set.
GetCharIndexRecoverDeferred ==
    /\ rpc \in {"panicking", "returning"}
    /\ IF rpc = "panicking"
       THEN rres' = [rres EXCEPT !.err = IndexError(idx, str)]
       ELSE UNCHANGED rres
    /\ rpc' = "done"
    /\ UNCHANGED <<str, idx, cpc, cres, gpc, gres>>
    /\ UNCHANGED <<bvars, avars>>

\* The body of getCharacter: char = rune(str[index]); return char, nil.
GetCharacterBody ==
    /\ gpc = "call"
    /\ IF IndexPanics(str, idx)
       THEN /\ gpc' = "panicking"
            /\ UNCHANGED gres
       ELSE /\ gres' = [char |-> str[idx + 1], err |-> NoErr]
            /\ gpc' = "returning"
    /\ UNCHANGED <<str, idx, cpc, cres, rpc, rres>>
    /\ UNCHANGED <<bvars, avars>>

\* GetCharacterDeferred whose recover() is not called by the deferred
\* function itself and so returns nil: the panic goes on.
GetCharacterDeferredNoRecover ==
    /\ gpc \in {"panicking", "returning"}
    /\ gpc' = IF gpc = "panicking" THEN "panic" ELSE "done"
    /\ UNCHANGED <<str, idx, cpc, cres, rpc, rres, gres>>
    /\ UNCHANGED <<bvars, avars>>

\* GetCharacterDeferred whose handler also sets char, to '?'.
GetCharacterDeferredSetsChar ==
    /\ gpc \in {"panicking", "returning"}
    /\ IF gpc = "panicking"
       THEN gres' = [char |-> 63, err |-> CharacterError(idx)]
       ELSE UNCHANGED gres
    /\ gpc' = "done"
    /\ UNCHANGED <<str, idx, cpc, cres, rpc, rres>>
    /\ UNCHANGED <<bvars, avars>>

\* The deferred function of getCharacter: if r := recover(); r != nil,
\* err is set; the panic does not go on.
GetCharacterDeferred ==
    /\ gpc \in {"panicking", "returning"}
    /\ IF gpc = "panicking"
       THEN gres' = [gres EXCEPT !.err = CharacterError(idx)]
       ELSE UNCHANGED gres
    /\ gpc' = "done"
    /\ UNCHANGED <<str, idx, cpc, cres, rpc, rres>>
    /\ UNCHANGED <<bvars, avars>>

NextChar ==
    \/ GetCharIndex
    \/ GetCharIndexRecoverBody
    \/ GetCharIndexRecoverDeferred
    \/ GetCharacterBody
    \/ GetCharacterDeferred

SpecChar == InitChar /\ [][NextChar]_vars

\* ------------------------------------------- the two-parameter NewLocalHost

\* The values main passes for either parameter: nil, ints, durations, a
\* string.
ArgPool ==
    {NilValue, StringValue(9090)}
        \cup {IntValue(n) : n \in {-1, 0, 5, 9090, 99999}}
        \cup {DurationValue(d) : d \in {0, 5 * Second}}

\* The type assertion x.(T): its value and whether it holds.
TypeAssert(x, T) == [v |-> x.val, ok |-> x.type = T]

\* NewLocalHostArgs with the timeout assertion written for int, the type
\* of the port.
NewLocalHostArgsTimeoutAsInt(port, timeout) ==
    LET p == TypeAssert(port, "int")
        t == TypeAssert(timeout, "int")
    IN  [host |-> "127.0.0.1",
         port |-> IF p.ok THEN p.v ELSE 8080,
         timeout |-> IF t.ok THEN t.v ELSE 3 * Second]

\* NewLocalHostArgs storing an int port only when it passes the range
\* check of the options article's WithPort.
NewLocalHostArgsValidating(port, timeout) ==
    LET p == TypeAssert(port, "int")
        t == TypeAssert(timeout, "time.Duration")
    IN  [host |-> "127.0.0.1",
         port |-> IF p.ok /\ p.v >= MinPort /\ p.v < MaxPort THEN p.v ELSE 8080,
         timeout |-> IF t.ok THEN t.v ELSE 3 * Second]

\* NewLocalHost(port, timeout interface{}): the Server it returns.
NewLocalHostArgs(port, timeout) ==
    LET defaultPort == 8080
        defaultTimeout == 3 * Second
        p == TypeAssert(port, "int")
        t == TypeAssert(timeout, "time.Duration")
        actualPort == IF p.ok THEN p.v ELSE defaultPort
        actualTimeout == IF t.ok THEN t.v ELSE defaultTimeout
    IN  [host |-> "127.0.0.1", port |-> actualPort, timeout |-> actualTimeout]

\* main is about to call NewLocalHost(aport, atimeout).
InitArgs ==
    /\ listing = "refined"
    /\ heap = <<>>
    /\ pc = [c \in Calls |-> "idle"]
    /\ opts = [c \in Calls |-> <<>>]
    /\ server = [c \in Calls |-> Nil]
    /\ next = [c \in Calls |-> 0]
    /\ invoked = [c \in Calls |-> <<>>]
    /\ ret = [c \in Calls |-> NoRet]
    /\ CharIdle
    /\ aport \in ArgPool
    /\ atimeout \in ArgPool
    /\ apc = "call"
    /\ aret = <<>>

\* The call runs and returns its &Server{...}.
CallNewLocalHostArgs ==
    /\ apc = "call"
    /\ aret' = <<NewLocalHostArgs(aport, atimeout)>>
    /\ apc' = "done"
    /\ UNCHANGED <<aport, atimeout>>
    /\ UNCHANGED <<bvars, cvars>>

NextArgs == CallNewLocalHostArgs

SpecArgs == InitArgs /\ [][NextArgs]_vars

\* ------------------------------------------------- vocabulary of the claims

Min(S) == CHOOSE x \in S : \A y \in S : x <= y
Max(S) == CHOOSE x \in S : \A y \in S : x >= y

\* The half-open range [5000, 10000) of the specification.
InRange(p) == 5000 <= p /\ p < 10000

Done(c) == pc[c] = "done"

\* The positions of o holding a WithPort whose port is out of range.
BadPorts(o) == {k \in 1 .. Len(o) : o[k].fn = "WithPort" /\ ~InRange(o[k].arg)}

\* Reading an error text: the number its run of sign and digit pieces spells.
IsNumPiece(x) == x = "-" \/ \E d \in 1 .. 10 : DigitChars[d] = x
DigitVal(x) == CHOOSE d \in 0 .. 9 : DigitChars[d + 1] = x
RECURSIVE ParseNat(_)
ParseNat(q) ==
    IF Len(q) = 0 THEN 0
    ELSE 10 * ParseNat(SubSeq(q, 1, Len(q) - 1)) + DigitVal(q[Len(q)])
ParseInt(q) == IF q[1] = "-" THEN 0 - ParseNat(Tail(q)) ELSE ParseNat(q)

\* Error text e names the number n: a maximal run of numeral pieces of e
\* spells n.
ErrNames(e, n) ==
    \E i, j \in 1 .. Len(e) :
        /\ i <= j
        /\ \A k \in i .. j : IsNumPiece(e[k])
        /\ \A k \in (i + 1) .. j : e[k] # "-"
        /\ e[j] # "-"
        /\ (i = 1 \/ ~IsNumPiece(e[i - 1]))
        /\ (j = Len(e) \/ ~IsNumPiece(e[j + 1]))
        /\ ParseInt(SubSeq(e, i, j)) = n

\* --------------------------------------------------------------- claim C1

\* C1: a NewLocalHost call whose options contain a WithPort(p) with p
\* outside [5000, 10000), the options before it all succeeding, returns a
\* nil target and a non-nil error that names p.
C1_OutOfRangePortRejected ==
    \A c \in Calls :
        (Done(c) /\ BadPorts(opts[c]) # {}) =>
            /\ ret[c].target = Nil
            /\ ret[c].err # NoErr
            /\ ErrNames(ret[c].err, opts[c][Min(BadPorts(opts[c]))].arg)

\* --------------------------------------------------------------- claim C2

\* The positions of call c's options that report an error when invoked.
FailPos(c) ==
    {k \in 1 .. Len(opts[c]) : CallOpt(listing, opts[c][k], NewServer).err # NoErr}

\* C2: when some option fails, NewLocalHost invokes the options up to the
\* first failing one and none after it, and returns exactly the error that
\* option reported.
C2_StopsAtFirstFailure ==
    \A c \in Calls :
        FailPos(c) # {} =>
            LET k == Min(FailPos(c)) IN
            /\ Len(invoked[c]) <= k
            /\ \A n \in 1 .. Len(invoked[c]) : invoked[c][n] = n
            /\ Done(c) =>
                 /\ Len(invoked[c]) = k
                 /\ ret[c].err = CallOpt(listing, opts[c][k], NewServer).err

\* A call that stopped at a failing option with a later option, never
\* invoked, that would have succeeded.
C2_Witness ==
    \E c \in Calls :
        /\ Done(c)
        /\ FailPos(c) # {}
        /\ \E j \in 1 .. Len(opts[c]) : j > Min(FailPos(c)) /\ j \notin FailPos(c)
        /\ Len(invoked[c]) = Min(FailPos(c))
        /\ ret[c].err = PortError(opts[c][Min(FailPos(c))].arg)

\* --------------------------------------------------------------- claim C3

\* C3: NewLocalHost returns either a non-nil target with a nil error or a
\* nil target with a non-nil error, never both and never neither.
C3_TargetXorError ==
    \A c \in Calls :
        Done(c) =>
            \/ (ret[c].target \in 1 .. Len(heap) /\ ret[c].err = NoErr)
            \/ (ret[c].target = Nil /\ ret[c].err # NoErr)

\* A call that returned an error after an earlier option had succeeded.
C3_Witness ==
    \E c \in Calls :
        Done(c) /\ ret[c].err # NoErr /\ ret[c].target = Nil /\ Len(invoked[c]) > 1

\* --------------------------------------------------------------- claim C4

\* C4: NewLocalHost with no options returns host "127.0.0.1", port 8080,
\* timeout 3 seconds and a nil error.
C4_EmptyGivesDefaults ==
    \A c \in Calls :
        (Done(c) /\ opts[c] = <<>>) =>
            /\ ret[c].err = NoErr
            /\ ret[c].target \in 1 .. Len(heap)
            /\ heap[ret[c].target] =
                 [host |-> "127.0.0.1", port |-> 8080, timeout |-> 3 * Second]

C4_Witness ==
    \E c \in Calls :
        Done(c) /\ opts[c] = <<>> /\ invoked[c] = <<>> /\ ret[c].target # Nil

\* --------------------------------------------------------------- claim C5

\* The argument of the last option of o that targets the field of helper
\* fn, or dflt when none does.
LastArg(o, fn, dflt) ==
    LET P == {k \in 1 .. Len(o) : o[k].fn = fn} IN
    IF P = {} THEN dflt ELSE o[Max(P)].arg

\* C5: when every option validates successfully, each field of the
\* returned target holds the value of the last option targeting it, or the
\* default (port 8080, timeout 3s) when none does; the host is 127.0.0.1.
C5_LastOptionPerField ==
    \A c \in Calls :
        (Done(c) /\ FailPos(c) = {}) =>
            /\ ret[c].err = NoErr
            /\ ret[c].target \in 1 .. Len(heap)
            /\ heap[ret[c].target] =
                 [host |-> "127.0.0.1",
                  port |-> LastArg(opts[c], "WithPort", 8080),
                  timeout |-> LastArg(opts[c], "WithTimeout", 3 * Second)]

\* The article's main: NewLocalHost(WithTimeout(5s), WithPort(7000)).
C5_Witness ==
    \E c \in Calls :
        /\ Done(c)
        /\ opts[c] = <<WithTimeout(5 * Second), WithPort(7000)>>
        /\ ret[c].target # Nil
        /\ heap[ret[c].target] =
             [host |-> "127.0.0.1", port |-> 7000, timeout |-> 5 * Second]

\* --------------------------------------------------------------- claim C6

\* A valid single-field option: any WithTimeout, or a WithPort in range.
ValidOpt(o) == o.fn = "WithTimeout" \/ (o.fn = "WithPort" /\ InRange(o.arg))

\* The field of Server s that the helper fn targets.
Field(s, fn) == IF fn = "WithPort" THEN s.port ELSE s.timeout

\* C6: NewLocalHost with one valid option returns a nil error and a target
\* whose targeted field is exactly the value the option captured.
C6_SingleOptionSetsField ==
    \A c \in Calls :
        (Done(c) /\ Len(opts[c]) = 1 /\ ValidOpt(opts[c][1])) =>
            /\ ret[c].err = NoErr
            /\ ret[c].target \in 1 .. Len(heap)
            /\ Field(heap[ret[c].target], opts[c][1].fn) = opts[c][1].arg

\* The lowest port of the range, accepted by the checking WithPort.
C6_Witness ==
    \E c \in Calls :
        /\ Done(c)
        /\ listing = "refined"
        /\ opts[c] = <<WithPort(5000)>>
        /\ ret[c].target # Nil
        /\ heap[ret[c].target].port = 5000

\* --------------------------------------------------------------- claim C7

\* C7: of two valid options targeting the same field, the second decides
\* the field of the returned target.
C7_LaterOptionWins ==
    \A c \in Calls :
        (/\ Done(c)
         /\ Len(opts[c]) = 2
         /\ opts[c][1].fn = opts[c][2].fn
         /\ ValidOpt(opts[c][1])
         /\ ValidOpt(opts[c][2])) =>
            /\ ret[c].err = NoErr
            /\ ret[c].target \in 1 .. Len(heap)
            /\ Field(heap[ret[c].target], opts[c][2].fn) = opts[c][2].arg

\* The specification's example: NewLocalHost(WithPort(6000), WithPort(7000)).
C7_Witness ==
    \E c \in Calls :
        /\ Done(c)
        /\ opts[c] = <<WithPort(6000), WithPort(7000)>>
        /\ ret[c].target # Nil
        /\ heap[ret[c].target].port = 7000

\* --------------------------------------------------------------- claim C8

\* C8: when the function returned by WithPort(p) returns a non-nil error,
\* every field of the target it was given is as it was before the call.
C8_FailedOptionChangesNothing ==
    [][\A c \in Calls :
          (/\ pc[c] = "loop"
           /\ Len(invoked'[c]) > Len(invoked[c])
           /\ opts[c][next[c]].fn = "WithPort"
           /\ CallOpt(listing, opts[c][next[c]], heap[server[c]]).err # NoErr) =>
              heap'[server[c]] = heap[server[c]]]_vars

\* A WithPort that failed on a target an earlier option had changed.
C8_Witness ==
    \E c \in Calls :
        /\ Done(c)
        /\ ret[c].err # NoErr
        /\ opts[c][Len(invoked[c])].fn = "WithPort"
        /\ heap[server[c]].port # DefaultPort
        /\ heap[server[c]].port # opts[c][Len(invoked[c])].arg

\* --------------------------------------------------------------- claim C9

\* What call c returned: the Server behind the pointer (<<>> for nil) and
\* the error.
Outcome(c) ==
    [target |-> IF ret[c].target = Nil THEN <<>> ELSE <<heap[ret[c].target]>>,
     err |-> ret[c].err]

\* The orderings of option list o.
Orderings(o) ==
    {[k \in 1 .. Len(o) |-> o[f[k]]] : f \in Permutations(1 .. Len(o))}

\* No two options of o target the same field.
DistinctFields(o) ==
    \A j, k \in 1 .. Len(o) : j # k => o[j].fn # o[k].fn

\* C9: when the options target pairwise different fields, NewLocalHost
\* returns the same outcome (field values, or error) for every ordering of
\* them.
C9_OrderIrrelevantAcrossFields ==
    \A c \in Calls :
        (Done(c) /\ DistinctFields(opts[c])) =>
            \A q \in Orderings(opts[c]) : NewLocalHost(listing, q) = Outcome(c)

\* Two options for different fields, both applied, neither a default.
C9_Witness ==
    \E c \in Calls :
        /\ Done(c)
        /\ opts[c] = <<WithPort(7000), WithTimeout(5 * Second)>>
        /\ Outcome(c) = NewLocalHost(listing, <<WithTimeout(5 * Second), WithPort(7000)>>)
        /\ Outcome(c).target = <<[host |-> "127.0.0.1", port |-> 7000, timeout |-> 5 * Second]>>

\* -------------------------------------------------------------- claim C10

\* C10: for every string and every integer index, negative indices
\* included, the bounds-checked getCharIndex never panics: it returns the
\* character at the index with a nil error, or a non-nil error.
C10_BoundsCheckedNeverPanics ==
    /\ cpc # "panic"
    /\ cpc = "done" =>
         \/ /\ cres.err = NoErr
            /\ idx \in 0 .. (Len(str) - 1)
            /\ cres.char = str[idx + 1]
         \/ cres.err # NoErr

\* -------------------------------------------------------------- claim C11

\* C11: the bounds-checked getCharIndex keeps the behaviour of the
\* recover-based one: on every string and index neither lets a panic
\* escape, and both return the same character with a nil error or both
\* return a non-nil error.
C11_RewriteKeepsBehaviour ==
    /\ cpc # "panic"
    /\ rpc # "panic"
    /\ (cpc = "done" /\ rpc = "done") =>
         /\ (cres.err = NoErr) <=> (rres.err = NoErr)
         /\ cres.err = NoErr => cres.char = rres.char

\* -------------------------------------------------------------- claim C17

\* C17: getCharacter lets no panic escape; for an index outside
\* [0, len(str)) it returns a non-nil error naming the index, for an index
\* inside it returns the byte at the index with a nil error.
C17_GetCharacterRecovers ==
    /\ gpc # "panic"
    /\ gpc = "done" =>
         IF idx \in 0 .. (Len(str) - 1)
         THEN gres = [char |-> str[idx + 1], err |-> NoErr]
         ELSE gres.err # NoErr /\ ErrNames(gres.err, idx)

\* getCharacter returned from a negative index on a non-empty string.
C17_Witness ==
    /\ gpc = "done"
    /\ idx < 0
    /\ Len(str) > 0
    /\ gres.err = <<"attempted to access index ", "-", "1", " out of range">>

\* -------------------------------------------------------------- claim C22

\* C22: the panic in getCharacter leaves the named results at their zero
\* values, and whenever getCharacter returns a non-nil error, the character it
\* returns is the zero rune.
C22_ErrorMeansZeroRune ==
    /\ gpc = "panicking" => gres = ZeroResults
    /\ (gpc = "done" /\ gres.err # NoErr) => gres.char = 0

\* getCharacter returned an error for an index past the end of a string
\* that has bytes.
C22_Witness ==
    /\ gpc = "done"
    /\ gres.err # NoErr
    /\ Len(str) > 0
    /\ idx >= Len(str)
    /\ gres.char = 0

\* -------------------------------------------------------------- claim C13

\* C13: the two-parameter NewLocalHost uses the default for a parameter
\* that is not provided (nil port: 8080, nil timeout: 3 seconds), stores a
\* provided int port and a provided time.Duration timeout as given, and
\* always sets host "127.0.0.1".
C13_DefaultsForNilArgs ==
    apc = "done" =>
        /\ Len(aret) = 1
        /\ aret[1].host = "127.0.0.1"
        /\ aport = NilValue => aret[1].port = 8080
        /\ aport.type = "int" => aret[1].port = aport.val
        /\ atimeout = NilValue => aret[1].timeout = 3 * Second
        /\ atimeout.type = "time.Duration" => aret[1].timeout = atimeout.val

\* The article's main, NewLocalHost(9090, nil), has returned.
C13_Witness ==
    /\ apc = "done"
    /\ aport = IntValue(9090)
    /\ atimeout = NilValue
    /\ aret = <<[host |-> "127.0.0.1", port |-> 9090, timeout |-> 3 * Second]>>

\* -------------------------------------------------------------- claim C21

\* C21: the two-parameter NewLocalHost never fails and never validates: the
\* call always ends by returning a Server; a port whose dynamic type is not
\* int (nil, a string, a duration) gives the default 8080 and a timeout
\* whose dynamic type is not time.Duration (nil, an int, a string) gives the
\* default 3 seconds; an int port is stored unchanged, whether or not it
\* lies in [5000, 10000).
C21_NeverFailsNeverValidates ==
    /\ apc \in {"idle", "call", "done"}
    /\ apc = "done" =>
         /\ aret # <<>>
         /\ aport.type # "int" => aret[1].port = 8080
         /\ atimeout.type # "time.Duration" => aret[1].timeout = 3 * Second
         /\ aport.type = "int" =>
              /\ aret[1].port = aport.val
              /\ \/ (5000 <= aport.val /\ aport.val < 10000)
                 \/ aret[1].port \notin 5000 .. 9999

\* NewLocalHost(99999, 5) has returned: the port, outside the range, is
\* stored and the int timeout is replaced by the default.
C21_Witness ==
    /\ apc = "done"
    /\ aport = IntValue(99999)
    /\ atimeout = IntValue(5)
    /\ aret = <<[host |-> "127.0.0.1", port |-> 99999, timeout |-> 3 * Second]>>

\* -------------------------------------------------------------- claim C14

\* Call c invokes its next option in this step.
Invokes(c) == pc[c] = "loop" /\ Len(invoked'[c]) = Len(invoked[c]) + 1

\* C14: the function returned by the range-checking WithPort(p) returns nil
\* and sets the port to p if and only if 5000 <= p <= 9999; otherwise it
\* returns the error whose text gives the range as (5000-9999).
C14_AcceptsExactlyTheRange ==
    [][\A c \in Calls :
          (/\ listing = "refined"
           /\ Invokes(c)
           /\ opts[c][next[c]].fn = "WithPort") =>
              LET p == opts[c][next[c]].arg IN
              /\ (5000 <= p /\ p <= 9999) <=>
                    (pc'[c] = "loop" /\ ret'[c].err = NoErr /\ heap'[server[c]].port = p)
              /\ ~(5000 <= p /\ p <= 9999) =>
                    /\ ret'[c].err # NoErr
                    /\ ret'[c].err[Len(ret'[c].err)] = " is out of the valid range (5000-9999)"]_vars

\* 5000 and 9999 were accepted and 10000 was then rejected.
C14_Witness ==
    \E c \in Calls :
        /\ listing = "refined"
        /\ Done(c)
        /\ opts[c] = <<WithPort(5000), WithPort(9999), WithPort(10000)>>
        /\ Len(invoked[c]) = 3
        /\ heap[server[c]].port = 9999
        /\ ErrNames(ret[c].err, 10000)

\* -------------------------------------------------------------- claim C15

\* C15: when NewLocalHost aborts at a failing option, its Server still
\* holds every change the earlier options made (nothing is put back to the
\* defaults), and the caller receives a nil target.
C15_NoRollbackOnFailure ==
    \A c \in Calls :
        (Done(c) /\ ret[c].err # NoErr) =>
            LET earlier == SubSeq(opts[c], 1, Len(invoked[c]) - 1) IN
            /\ ret[c].target = Nil
            /\ heap[server[c]] =
                 [host |-> "127.0.0.1",
                  port |-> LastArg(earlier, "WithPort", 8080),
                  timeout |-> LastArg(earlier, "WithTimeout", 3 * Second)]

\* An abort that left both a port and a timeout set by earlier options.
C15_Witness ==
    \E c \in Calls :
        /\ Done(c)
        /\ ret[c].err # NoErr
        /\ ret[c].target = Nil
        /\ heap[server[c]].port = 7000
        /\ heap[server[c]].timeout = 5 * Second

\* -------------------------------------------------------------- claim C19

\* C19: applying WithPort leaves host and timeout unchanged, applying
\* WithTimeout leaves host and port unchanged, and every target
\* NewLocalHost returns has host "127.0.0.1".
C19_OptionsTouchOwnFieldOnly ==
    /\ [](\A c \in Calls :
             (Done(c) /\ ret[c].target # Nil) =>
                 heap[ret[c].target].host = "127.0.0.1")
    /\ [][\A c \in Calls :
             Invokes(c) =>
                 /\ heap'[server[c]].host = heap[server[c]].host
                 /\ opts[c][next[c]].fn = "WithPort" =>
                      heap'[server[c]].timeout = heap[server[c]].timeout
                 /\ opts[c][next[c]].fn = "WithTimeout" =>
                      heap'[server[c]].port = heap[server[c]].port]_vars

\* A target returned after a WithTimeout and then a WithPort had each
\* changed its field.
C19_Witness ==
    \E c \in Calls :
        /\ Done(c)
        /\ ret[c].target # Nil
        /\ opts[c] = <<WithTimeout(0), WithPort(6000), WithTimeout(5 * Second)>>
        /\ heap[ret[c].target] =
             [host |-> "127.0.0.1", port |-> 6000, timeout |-> 5 * Second]

\* -------------------------------------------------------------- claim C20

\* C20: with the range-checking WithPort, every non-nil target returned
\* by NewLocalHost has a port in [5000, 10000): the default 8080 or a value
\* a WithPort option passed.
C20_ReturnedPortInRange ==
    \A c \in Calls :
        (listing = "refined" /\ Done(c) /\ ret[c].target # Nil) =>
            LET port == heap[ret[c].target].port IN
            /\ 5000 <= port /\ port < 10000
            /\ \/ port = 8080
               \/ \E k \in 1 .. Len(opts[c]) : opts[c][k] = WithPort(port)

\* A returned target whose port is the highest one accepted.
C20_Witness ==
    \E c \in Calls :
        /\ listing = "refined"
        /\ Done(c)
        /\ ret[c].target # Nil
        /\ Len(opts[c]) = MaxOpts
        /\ heap[ret[c].target].port = 9999

\* -------------------------------------------------------------- claim C18

\* C18: NewLocalHost invokes its options in sequence order, each at most
\* once and at most len(opts) of them; once entered it always reaches one
\* terminal outcome, succeeded (every option invoked, nil error) or
\* aborted with an error; after that it stays returned and changes neither
\* its result nor its target.
C18_LinearAndTerminates ==
    /\ [](\A c \in Calls :
             /\ Len(invoked[c]) <= Len(opts[c])
             /\ \A n \in 1 .. Len(invoked[c]) : invoked[c][n] = n
             /\ Done(c) =>
                  \/ ret[c].err = NoErr /\ Len(invoked[c]) = Len(opts[c])
                  \/ ret[c].err # NoErr /\ ret[c].target = Nil)
    /\ [][\A c \in Calls :
             Done(c) =>
                 /\ pc'[c] = "done"
                 /\ ret'[c] = ret[c]
                 /\ invoked'[c] = invoked[c]
                 /\ heap'[server[c]] = heap[server[c]]]_vars
    /\ \A c \in Calls : (pc[c] = "loop") ~> Done(c)

\* A call that invoked all of a longest option list and succeeded.
C18_Witness ==
    \E c \in Calls :
        /\ Done(c)
        /\ Len(opts[c]) = MaxOpts
        /\ invoked[c] = [n \in 1 .. MaxOpts |-> n]
        /\ ret[c].err = NoErr

\* -------------------------------------------------------------- claim C12

\* C12: each NewLocalHost call owns a freshly created target: under every
\* interleaving of the calls, one after the other included, a call's
\* target holds exactly what the call's own invoked options made of the
\* defaults, its result is the one it returns when run alone, and no two
\* calls have the same target.
C12_CallsOwnTheirTargets ==
    \A c \in Calls :
        /\ server[c] # Nil =>
             /\ server[c] \in 1 .. Len(heap)
             /\ heap[server[c]] =
                  RangeOpts(listing, SubSeq(opts[c], 1, Len(invoked[c])), NewServer).s
        /\ Done(c) => Outcome(c) = NewLocalHost(listing, opts[c])
        /\ \A d \in Calls \ {c} :
             (server[c] # Nil /\ server[d] # Nil) => server[c] # server[d]

\* One call has returned its target while another, entered before it
\* returned or after, is in the middle of its loop, each with its own
\* change.
C12_Witness ==
    \E c, d \in Calls :
        /\ c # d
        /\ Done(c)
        /\ ret[c].target # Nil
        /\ heap[ret[c].target].timeout = 5 * Second
        /\ heap[ret[c].target].port = 8080
        /\ pc[d] = "loop"
        /\ Len(invoked[d]) = 1
        /\ Len(opts[d]) = 2
        /\ heap[server[d]].port = 7000
        /\ heap[server[d]].timeout = 3 * Second

\* -------------------------------------------------------------- claim C16

\* C16: calling WithPort(p) or WithTimeout(t) mutates no target; a target's
\* fields change only in a step in which the NewLocalHost call that owns
\* it invokes an option on it.
C16_CreatingOptionChangesNothing ==
    [][/\ opts' # opts => heap' = heap
       /\ \A a \in 1 .. Len(heap) :
            heap'[a] # heap[a] => \E c \in Calls : server[c] = a /\ Invokes(c)]_vars

\* A call has built WithPort(7000) and not yet entered NewLocalHost, while
\* another call's target exists with its port still 8080.
C16_Witness ==
    \E c, d \in Calls :
        /\ c # d
        /\ pc[c] = "main"
        /\ opts[c] = <<WithPort(7000)>>
        /\ server[d] # Nil
        /\ heap[server[d]].port = 8080

====
